---- MODULE Spec2Model ----
(***************************************************************************)
(* VertechX credential vault: the issuance, revocation, disclosure and     *)
(* verification handlers of server/routes.ts over the tables of            *)
(* shared/schema.ts as accessed through server/storage.ts.                 *)
(*                                                                         *)
(* Every request handler is one action.  A request carries its session     *)
(* (express-session data: userId, organizationId) and its body as inputs.  *)
(* `response` is the response of the request served by the step just       *)
(* taken: its request, its HTTP status and its body.                       *)
(***************************************************************************)
EXTENDS Integers, Sequences, FiniteSets, Bags, TLC

\* ---------------------------------------------------------------- bounds
\* registered user accounts
NumUsers == 2
\* users rows inserted by registration and login
MaxNewUsers == 1
\* organization accounts
NumOrgs == 2
\* DID rows ever created
MaxDids == 2
\* credential rows ever created
MaxCreds == 1
\* rows of the verifications table
MaxVerifs == 1
\* rows of the activities table
MaxActs == 4
\* clock values 1..MaxTime
MaxTime == 2

\* the 5-year default expiry of GovernmentID credentials, in clock units
FiveYears == 2

NULL == 0
\* new Date(s) of a string s that is not a date: Invalid Date
InvalidDate == -1

Users == 1..NumUsers
Times == 1..MaxTime

Range(s) == {s[i] : i \in 1..Len(s)}
\* verifications and activities are tables read without an order: bags of rows
InsertRow(table, row) == table (+) SetToBag({row})
RowCount(table) == BagCardinality(table)
KeepRows(table, rows) == [r \in DOMAIN table \cap rows |-> table[r]]

\* ------------------------------------------------------------ crypto.ts
\* A key pair is identified by the index k of its generation; the two
\* exported JWK strings are distinct values that share k.
PublicKeyOf(k) == [part |-> "public", k |-> k]
PrivateKeyOf(k) == [part |-> "private", k |-> k]
generateKeyPair(k) == [publicKey |-> PublicKeyOf(k), privateKey |-> PrivateKeyOf(k)]

\* "did:key:z" + sha256(publicKey)[0..32]
generateDidString(publicKey) == [method |-> "key", z |-> publicKey.k]
ForeignDidString == [method |-> "web", z |-> 0]
NoDidString == [method |-> "", z |-> 0]

\* credentialSubject values (JSON objects).  `present` is FALSE for a
\* missing field of a JSON document.
NoSubject ==
  [present |-> FALSE, id |-> NoDidString, type |-> "", org |-> "",
   idNumber |-> 0, name |-> ""]

\* JavaScript values that signData and verifySignature (data: any) may be
\* given: undefined, null, NaN, a number, and objects whose own properties
\* are listed in insertion order.
UndefinedValue == [js |-> "undefined", n |-> "", entries |-> <<>>]
NullValue == [js |-> "null", n |-> "", entries |-> <<>>]
NaNValue == [js |-> "NaN", n |-> "", entries |-> <<>>]
NumberValue(n) == [js |-> "number", n |-> n, entries |-> <<>>]
ObjectValue(entries) == [js |-> "object", n |-> "", entries |-> entries]
Entry(key, value) == [key |-> key, value |-> value]
PrimitiveValues == {UndefinedValue, NullValue, NaNValue, NumberValue("1")}
PropertyValues == {UndefinedValue, NullValue, NumberValue("1")}
ObjectKeys == {"a", "b"}
EntryLists ==
  {<<>>} \cup {<<Entry(k, v)>> : k \in ObjectKeys, v \in PropertyValues}
    \cup {<<Entry(e[1], e[2]), Entry(e[3], e[4])>> :
            e \in {f \in ObjectKeys \X PropertyValues \X ObjectKeys \X PropertyValues :
                     f[1] # f[3]}}
JsValues == PrimitiveValues \cup {ObjectValue(entries) : entries \in EntryLists}

\* JSON.stringify(data), as the sequence of the tokens of its text.  NaN is
\* written null; undefined has no text, and new TextEncoder().encode(undefined)
\* is the encoding of the empty string; a property whose value is undefined
\* is left out.
PrimitiveText(value) ==
  CASE value.js = "number" -> <<value.n>>
    [] value.js \in {"null", "NaN"} -> <<"null">>
    [] OTHER -> <<>>
RECURSIVE PropertiesText(_)
PropertiesText(entries) ==
  IF entries = <<>> THEN <<>>
  ELSE LET rest == PropertiesText(Tail(entries))
       IN IF Head(entries).value.js = "undefined" THEN rest
          ELSE <<Head(entries).key, ":">> \o PrimitiveText(Head(entries).value)
                 \o (IF rest = <<>> THEN <<>> ELSE <<",">> \o rest)
\* The credentialSubject objects of the routes are each written by one object
\* literal of defined values: such an object stands for its own text.
JsonStringify(data) ==
  IF data \in JsValues
  THEN IF data.js = "object"
       THEN <<"{">> \o PropertiesText(data.entries) \o <<"}">>
       ELSE PrimitiveText(data)
  ELSE data

\* ECDSA over JSON.stringify(data): a signature is bound to the signed
\* text and to the signing key.
EmptySignature == [data |-> NoSubject, k |-> 0]
signData(data, privateKey) == [data |-> JsonStringify(data), k |-> privateKey.k]
verifySignature(data, signature, publicKey) ==
  /\ signature # EmptySignature
  /\ publicKey.part = "public"
  /\ signature.k = publicKey.k
  /\ signature.data = JsonStringify(data)

\* "Qm" + sha256(JSON.stringify(data))[0..44]: a function of the payload only
generateIpfsCid(data) == [qm |-> data]

\* proof values: absent, or an object with a (possibly empty) signature
NoProof == [present |-> FALSE, signature |-> EmptySignature]
MakeProof(sig) == [present |-> TRUE, signature |-> sig]

\* ------------------------------------------------------------- state
VARIABLES
  users,          \* ids of the rows of table users
  currentDid,     \* users.currentDidId, per user id (NULL when unset)
  dids,           \* rows of table dids
  credentials,    \* rows of table credentials, in insertion order
  verifications,  \* rows of table verifications: a bag
  activities,     \* rows of table activities: a bag
  ipfsContent,    \* the cid column of table ipfs_content
  nextCredId,     \* credentials created so far + 1 (ids and share tokens are fresh)
  nextDidId,      \* DIDs created so far + 1 (ids and key pairs are fresh)
  now,            \* the server clock
  response,       \* the response of the request served by the last step
  reqSession,     \* req.session of one browser: userId, organizationId
  accounts,       \* username and email of every users row ever inserted
  organizations,  \* ids of the rows of table organizations
  nextUserId,     \* users rows inserted so far + 1 (ids are fresh)
  signing,        \* a payload signed and a payload verified outside any request
  revoking,       \* a revoke request served one storage call at a time
  verifying       \* a self-serve verification served one storage call at a time

\* the browser session and the account tables of the authentication routes
authVars == <<reqSession, accounts, organizations, nextUserId>>
\* the two requests whose storage calls interleave
raceVars == <<revoking, verifying>>
auxVars == <<authVars, signing, raceVars>>

vars == <<users, currentDid, dids, credentials, verifications, activities,
          ipfsContent, nextCredId, nextDidId, now, response, auxVars>>

storageVars == <<users, currentDid, dids, credentials, verifications,
                 activities, ipfsContent, nextCredId, nextDidId>>

\* ------------------------------------------------------- request inputs
\* express-session data; NULL means the field is not set
NoSession == [userId |-> NULL, organizationId |-> NULL]
DefaultOrgId == 1
UserSession(u) == [userId |-> u, organizationId |-> NULL]
OrgSession == [userId |-> NULL, organizationId |-> DefaultOrgId]
\* the middleware of the protected routes: next() is called, or 401 is sent
requireAuth(session) == session.userId # NULL
\* a middleware that lets every request through: the variant C25 rules out
requireNothing(session) == TRUE
requireAdminAuth(session) == session.organizationId # NULL

\* Strings that are not JSON.  A credential id and a share token are both
\* UUID strings; ns tells which one the UUID n was generated as.
\*   bare : "<uuid>"      link : "https://host/verify/<uuid>"
\*   query: "https://host/verify?shareToken=<uuid>"
IdKey(n) == [ns |-> "id", n |-> n]
TokenKey(n) == [ns |-> "token", n |-> n]
UnknownKey == [ns |-> "unknown", n |-> 0]
Keys == {IdKey(n) : n \in 1..MaxCreds} \cup {TokenKey(n) : n \in 1..MaxCreds}
          \cup {UnknownKey}
Bare(key) == [form |-> "bare", key |-> key]
Texts == [form : {"bare", "link", "query"}, key : Keys]

\* status strings as they may appear in a JSON document
RawStatuses == {"verified", "revoked", "pending", " Verified ", "REVOKED", ""}
\* credential.status.trim().toLowerCase()
TrimLower(s) ==
  CASE s = " Verified " -> "verified"
    [] s = "REVOKED" -> "revoked"
    [] OTHER -> s

NoCredential ==
  [id |-> NULL, didId |-> NULL, type |-> "", title |-> "", issuer |-> "",
   expiresAt |-> NULL, status |-> "", credentialSubject |-> NoSubject,
   proof |-> NoProof, ipfsCid |-> generateIpfsCid(NoSubject), shareToken |-> NULL]

\* ------------------------------------------------------------ storage.ts
getUserById(id) == {u \in users : u = id}
getDid(id) == {d \in dids : d.id = id}
getDidsByUserId(userId) == {d \in dids : d.userId = userId}

\* getCurrentDidForUser: the DID read, and the pointer it leaves behind
FirstDid(ds) == CHOOSE d \in ds : \A e \in ds : d.id <= e.id
\* a lookup that does not filter by user: the variant C10 rules out
getCurrentDidOfAnyUser(userId) == IF dids # {} THEN {FirstDid(dids)} ELSE {}
getCurrentDidForUser(userId) ==
  IF getUserById(userId) # {} /\ currentDid[userId] # NULL
  THEN getDid(currentDid[userId])
  ELSE IF getDidsByUserId(userId) # {}
       THEN {FirstDid(getDidsByUserId(userId))}
       ELSE {}
\* an UPDATE without its WHERE clause: the variant C29 rules out
updateEveryCurrentDid(cur, userId, didId) == [u \in DOMAIN cur |-> didId]
updateUserCurrentDid(cur, userId, didId) ==
  IF userId \in users THEN [cur EXCEPT ![userId] = didId] ELSE cur
CurrentDidAfterLookup(userId) ==
  IF getUserById(userId) # {} /\ currentDid[userId] # NULL
  THEN currentDid
  ELSE IF getDidsByUserId(userId) # {}
       THEN updateUserCurrentDid(currentDid, userId,
                                 FirstDid(getDidsByUserId(userId)).id)
       ELSE currentDid

getCredential(text) ==
  {c \in Range(credentials) : text = Bare(IdKey(c.id))}
getCredentialByShareToken(text) ==
  {c \in Range(credentials) : text = Bare(TokenKey(c.shareToken))}
CredentialById(id) == {c \in Range(credentials) : c.id = id}

\* a status update that flips a row already in that status back to verified:
\* the variant C7 rules out
updateCredentialStatusToggle(creds, id, status) ==
  [i \in 1..Len(creds) |->
     IF creds[i].id = id
     THEN [creds[i] EXCEPT !.status = IF @ = status THEN "verified" ELSE status]
     ELSE creds[i]]
updateCredentialStatus(creds, id, status) ==
  [i \in 1..Len(creds) |->
     IF creds[i].id = id THEN [creds[i] EXCEPT !.status = status] ELSE creds[i]]

\* a || b || c over query results
OrElse(a, b) == IF a # {} THEN a ELSE b
TheOne(s) == CHOOSE x \in s : TRUE

\* ------------------------------------------------------------ responses
NoText == [form |-> "none", key |-> UnknownKey]
NoDetails ==
  [signatureValid |-> FALSE, notExpired |-> FALSE, issuerTrusted |-> FALSE,
   proofVerified |-> FALSE, statusVerified |-> FALSE]

\* op: the route; session, text: the request; id: the id of the credential
\* the request resolved to or created; code, kind: the HTTP
\* status and the error of the taxonomy it stands for; isValid, details,
\* credential: the body; stored: the body's credential was read from storage;
\* disclosed: the disclosedFields map of a selective disclosure; fields: the
\* fields array of its request.
\* body: the fields of an issuance request; dataKind is the kind of JSON
\* value of its credentialData.
NoDisclosure == [f \in {} |-> 0]
NoBody == [type |-> "", title |-> "", issuer |-> "", issuedDate |-> NULL,
           expiresDate |-> NULL, hasData |-> FALSE, dataKind |-> "absent"]
\* did: the dids row a response body is made of (res.json(did)), if any
NoDid ==
  [id |-> NULL, userId |-> NULL, didString |-> NoDidString,
   publicKey |-> PublicKeyOf(0), privateKey |-> PrivateKeyOf(0)]
Body(type, title, issuer, issuedDate, expiresDate, hasData, dataKind) ==
  [type |-> type, title |-> title, issuer |-> issuer, issuedDate |-> issuedDate,
   expiresDate |-> expiresDate, hasData |-> hasData, dataKind |-> dataKind]
Respond(op, session, text, id, code, kind, isValid, details, credential, stored) ==
  [op |-> op, session |-> session, text |-> text, id |-> id,
   code |-> code, kind |-> kind, isValid |-> isValid, details |-> details,
   credential |-> credential, stored |-> stored, disclosed |-> NoDisclosure,
   fields |-> <<>>, body |-> NoBody, did |-> NoDid]

Idle ==
  Respond("none", NoSession, NoText, NULL, 0, "", FALSE,
          NoDetails, NoCredential, FALSE)

Fail(op, session, text, id, code, kind) ==
  Respond(op, session, text, id, code, kind, FALSE, NoDetails,
          NoCredential, FALSE)

\* ------------------------------------------------------------------ rows
Activity(didId, type, credentialId) ==
  [didId |-> didId, type |-> type, credentialId |-> credentialId]

Verification(credentialId, verifierDid, isValid, details) ==
  [credentialId |-> credentialId, verifierDid |-> verifierDid,
   isValid |-> IF isValid THEN "true" ELSE "false",
   verificationMethod |-> "signature", result |-> details]

\* verifications.credentialId references credentials.id
VerificationFkHolds(credentialId) ==
  credentialId = NULL \/ CredentialById(credentialId) # {}

\* -------------------------------------------------------------- Init
\* signing: data is signed with the private key of key pair k, then candidate
\* is verified against the signature with the public key of key pair pubk
NotSigning ==
  [data |-> UndefinedValue, candidate |-> UndefinedValue, k |-> 0, pubk |-> 0,
   signature |-> EmptySignature, verdict |-> FALSE, pc |-> "none"]

\* revoking, verifying: pc is the await the handler stands at, credential the
\* row its query returned, code the status of its response (0: none yet);
\* afterRevoke tells whether the verification's query was sent after a revoke
\* of the same credential had been answered 200
NotRevoking ==
  [pc |-> "idle", session |-> NoSession, param |-> NoText,
   credential |-> NoCredential, code |-> 0]
NotVerifying ==
  [pc |-> "idle", session |-> NoSession, text |-> NoText,
   credential |-> NoCredential, isValid |-> FALSE, afterRevoke |-> FALSE,
   code |-> 0]

InitServer ==
  /\ users = Users
  /\ currentDid = [u \in Users |-> NULL]
  /\ dids = {}
  /\ credentials = <<>>
  /\ verifications = EmptyBag
  /\ activities = EmptyBag
  /\ ipfsContent = {}
  /\ nextCredId = 1
  /\ nextDidId = 1
  /\ now = 1
  /\ response = Idle
  /\ reqSession = NoSession
  /\ accounts = [u \in Users |-> [username |-> u, email |-> u]]
  /\ organizations = {DefaultOrgId}
  /\ nextUserId = NumUsers + 1
  /\ revoking = NotRevoking
  /\ verifying = NotVerifying

Init == InitServer /\ signing = NotSigning

\* Requests are served one at a time: a handler runs when the previous
\* response has been sent.
Ready == response = Idle

\* res.json(...) / res.status(...).json(...): the response leaves the server
SendResponse ==
  /\ response # Idle
  /\ response' = Idle
  /\ UNCHANGED auxVars
  /\ UNCHANGED <<storageVars, now>>

\* the clock advances between requests
Tick ==
  /\ Ready
  /\ UNCHANGED auxVars
  /\ now < MaxTime
  /\ now' = now + 1
  /\ response' = Idle
  /\ UNCHANGED storageVars

\* ------------------------------------------- POST /api/did/create
CreateIdentity(session) ==
  /\ Ready
  /\ UNCHANGED auxVars
  /\ UNCHANGED <<users, credentials, verifications, ipfsContent, nextCredId, now>>
  /\ IF ~requireAuth(session)
     THEN /\ response' = Fail("createDid", session, NoText, NULL,
                              401, "Unauthorized")
          /\ UNCHANGED <<dids, currentDid, activities, nextDidId>>
     ELSE /\ nextDidId <= MaxDids
          /\ RowCount(activities) < MaxActs
          /\ LET keyPair == generateKeyPair(nextDidId)
                 did == [id |-> nextDidId, userId |-> session.userId,
                         didString |-> generateDidString(keyPair.publicKey),
                         publicKey |-> keyPair.publicKey,
                         privateKey |-> keyPair.privateKey]
             IN /\ dids' = dids \cup {did}
                /\ nextDidId' = nextDidId + 1
                /\ currentDid' = updateUserCurrentDid(currentDid, session.userId, did.id)
                /\ activities' = InsertRow(activities, Activity(did.id, "did_created", NULL))
                /\ response' = [Respond("createDid", session, NoText,
                                        did.id, 200, "ok", FALSE, NoDetails,
                                        NoCredential, FALSE) EXCEPT !.did = did]

\* ------------------------------------------- GET /api/did/current
GetCurrentDid(session) ==
  /\ Ready
  /\ UNCHANGED auxVars
  /\ UNCHANGED <<users, dids, credentials, verifications, activities, ipfsContent,
                 nextCredId, nextDidId, now>>
  /\ IF ~requireAuth(session)
     THEN /\ response' = Fail("currentDid", session, NoText, NULL,
                              401, "Unauthorized")
          /\ UNCHANGED currentDid
     ELSE /\ currentDid' = CurrentDidAfterLookup(session.userId)
          /\ IF getCurrentDidForUser(session.userId) = {}
             THEN response' = Fail("currentDid", session, NoText, NULL,
                                   404, "NoIdentity")
             ELSE LET did == TheOne(getCurrentDidForUser(session.userId))
                  IN response' = [Respond("currentDid", session, NoText,
                                          did.id, 200, "ok", FALSE, NoDetails,
                                          NoCredential, FALSE) EXCEPT !.did = did]

\* ------------------------------------- POST /api/credentials/request
Types == {"EducationalCredential", "GovernmentID"}
Titles == {"t1"}
Issuers == {"i1"}

\* createCredentialRequestSchema: type, title and issuer are non-empty
ValidCredentialRequest(type, title, issuer) ==
  type # "" /\ title # "" /\ issuer # ""

\* { id: did.didString, type, ...fields of the type }
\* idNumber is `ID-` + 8 random characters: a value not drawn before
TemplateSubject(did, type, issuer) ==
  [present |-> TRUE, id |-> did.didString, type |-> type,
   org |-> IF type \in {"EducationalCredential", "EmploymentCredential"}
           THEN issuer ELSE "",
   idNumber |-> IF type = "GovernmentID" THEN nextCredId ELSE 0,
   name |-> ""]

TemplateExpiry(type, expiresDate) ==
  IF expiresDate # NULL THEN expiresDate
  ELSE IF type = "GovernmentID" THEN now + FiveYears ELSE NULL

\* a credential row stored without a share token: the variant C14 rules out
NewCredentialNoToken(did, type, title, issuer, expiresAt, subject) ==
  [id |-> nextCredId, didId |-> did.id, type |-> type, title |-> title,
   issuer |-> issuer, expiresAt |-> expiresAt, status |-> "verified",
   credentialSubject |-> subject,
   proof |-> MakeProof(signData(subject, did.privateKey)),
   ipfsCid |-> generateIpfsCid(subject), shareToken |-> NULL]
NewCredential(did, type, title, issuer, expiresAt, subject) ==
  [id |-> nextCredId, didId |-> did.id, type |-> type, title |-> title,
   issuer |-> issuer, expiresAt |-> expiresAt, status |-> "verified",
   credentialSubject |-> subject,
   proof |-> MakeProof(signData(subject, did.privateKey)),
   ipfsCid |-> generateIpfsCid(subject), shareToken |-> nextCredId]

\* ipfs_content.cid is unique: the insert throws on a cid already stored
IpfsInsertFails(cid) == cid \in ipfsContent

\* issuedDate ? new Date(issuedDate) : new Date()
ParsedIssuedDate(issuedDate) == IF issuedDate # NULL THEN issuedDate ELSE now
\* parsedIssuedDate.toISOString() throws a RangeError on an Invalid Date
IssuanceDateThrows(issuedDate) == ParsedIssuedDate(issuedDate) = InvalidDate

\* createIpfsContent, createCredential, createActivity and the response
Persist(op, session, body, did, expiresAt, subject) ==
  IF IpfsInsertFails(generateIpfsCid(subject))
  THEN /\ response' = [Fail(op, session, NoText, NULL, 500, "Internal")
                       EXCEPT !.body = body]
       /\ UNCHANGED <<credentials, activities, ipfsContent, nextCredId>>
  ELSE IF IssuanceDateThrows(body.issuedDate)
  THEN /\ ipfsContent' = ipfsContent \cup {generateIpfsCid(subject)}
       /\ response' = [Fail(op, session, NoText, NULL, 500, "Internal")
                       EXCEPT !.body = body]
       /\ UNCHANGED <<credentials, activities, nextCredId>>
  ELSE /\ nextCredId <= MaxCreds
       /\ RowCount(activities) < MaxActs
       /\ LET credential == NewCredential(did, body.type, body.title, body.issuer,
                                          expiresAt, subject)
          IN /\ ipfsContent' = ipfsContent \cup {credential.ipfsCid}
             /\ credentials' = Append(credentials, credential)
             /\ nextCredId' = nextCredId + 1
             /\ activities' = InsertRow(activities,
                                     Activity(did.id, "credential_issued", credential.id))
             /\ response' = [Respond(op, session, NoText, credential.id, 200, "ok",
                                     FALSE, NoDetails, credential, TRUE)
                             EXCEPT !.body = body]

\* a response that writes nothing
Reject(op, session, body, code, kind) ==
  /\ response' = [Fail(op, session, NoText, NULL, code, kind) EXCEPT !.body = body]
  /\ UNCHANGED <<credentials, activities, ipfsContent, nextCredId>>

IssueCredential(session, type, title, issuer, issuedDate, expiresDate) ==
  /\ Ready
  /\ UNCHANGED auxVars
  /\ UNCHANGED <<users, dids, verifications, nextDidId, now>>
  /\ LET body == Body(type, title, issuer, issuedDate, expiresDate, FALSE, "absent")
     IN IF ~requireAuth(session)
        THEN /\ Reject("issue", session, body, 401, "Unauthorized")
             /\ UNCHANGED currentDid
        ELSE IF ~ValidCredentialRequest(type, title, issuer)
        THEN /\ Reject("issue", session, body, 400, "ValidationError")
             /\ UNCHANGED currentDid
        ELSE /\ currentDid' = CurrentDidAfterLookup(session.userId)
             /\ IF getCurrentDidForUser(session.userId) = {}
                THEN Reject("issue", session, body, 400, "NoIdentity")
                ELSE LET did == TheOne(getCurrentDidForUser(session.userId))
                     IN Persist("issue", session, body, did,
                                TemplateExpiry(type, expiresDate),
                                TemplateSubject(did, type, issuer))

\* ------------------------------------- POST /api/credentials/custom
\* req.body.credentialData, any JSON value: absent, an object of claims
\* that may itself carry an id, the number 7 or the array [].  `present` is
\* its truthiness; id and name are its own enumerable properties.
NoClaims == [present |-> FALSE, kind |-> "absent", id |-> NoDidString, name |-> ""]
AnaClaims == [present |-> TRUE, kind |-> "object", id |-> NoDidString, name |-> "Ana"]
NumberClaims == [present |-> TRUE, kind |-> "number", id |-> NoDidString, name |-> ""]
ArrayClaims == [present |-> TRUE, kind |-> "array", id |-> NoDidString, name |-> ""]
ObjectClaims == {NoClaims, AnaClaims, [AnaClaims EXCEPT !.id = ForeignDidString]}
CustomClaims == ObjectClaims \cup {NumberClaims, ArrayClaims}

\* { id: did.didString, ...credentialData }: the spread copies the own
\* enumerable properties of credentialData, whatever kind of value it is
CustomSubject(did, credentialData) ==
  [present |-> TRUE,
   id |-> IF credentialData.id # NoDidString THEN credentialData.id
          ELSE did.didString,
   type |-> "", org |-> "", idNumber |-> 0, name |-> credentialData.name]

\* !type || !title || !issuer || !credentialData
MissingRequiredFields(type, title, issuer, credentialData) ==
  type = "" \/ title = "" \/ issuer = "" \/ ~credentialData.present

IssueCustomCredential(session, type, title, issuer, issuedDate, expiresDate, credentialData) ==
  /\ Ready
  /\ UNCHANGED auxVars
  /\ UNCHANGED <<users, dids, verifications, nextDidId, now>>
  /\ LET body == Body(type, title, issuer, issuedDate, expiresDate,
                      credentialData.present, credentialData.kind)
     IN IF ~requireAuth(session)
        THEN /\ Reject("issueCustom", session, body, 401, "Unauthorized")
             /\ UNCHANGED currentDid
        ELSE IF MissingRequiredFields(type, title, issuer, credentialData)
        THEN /\ Reject("issueCustom", session, body, 400, "ValidationError")
             /\ UNCHANGED currentDid
        ELSE /\ currentDid' = CurrentDidAfterLookup(session.userId)
             /\ IF getCurrentDidForUser(session.userId) = {}
                THEN Reject("issueCustom", session, body, 400, "NoIdentity")
                ELSE LET did == TheOne(getCurrentDidForUser(session.userId))
                     IN Persist("issueCustom", session, body, did, expiresDate,
                                CustomSubject(did, credentialData))

\* -------------------------------------------- GET /api/credentials/:id
PathParams == {Bare(k) : k \in Keys}

GetCredentialById(session, param) ==
  /\ Ready
  /\ UNCHANGED auxVars
  /\ UNCHANGED <<storageVars, now>>
  /\ IF getCredential(param) = {}
     THEN response' = Fail("getCredential", session, param, NULL,
                           404, "CredentialNotFound")
     ELSE LET credential == TheOne(getCredential(param))
          IN response' = Respond("getCredential", session, param,
                                 credential.id, 200, "ok", FALSE, NoDetails,
                                 credential, TRUE)

\* ------------------------------------ PATCH /api/credentials/:id/revoke
\* a revoke check that only asks whether the DID exists: the variant C6 rules out
RevokeForbiddenMissingDid(did, userId) == did = {}
\* !did || did.userId !== userId
RevokeForbidden(did, userId) == did = {} \/ TheOne(did).userId # userId

RevokeCredential(session, param) ==
  /\ Ready
  /\ UNCHANGED auxVars
  /\ UNCHANGED <<users, currentDid, dids, verifications, ipfsContent, nextCredId,
                 nextDidId, now>>
  /\ IF ~requireAuth(session)
     THEN /\ response' = Fail("revoke", session, param, NULL,
                              401, "Unauthorized")
          /\ UNCHANGED <<credentials, activities>>
     ELSE IF getCredential(param) = {}
     THEN /\ response' = Fail("revoke", session, param, NULL,
                              404, "CredentialNotFound")
          /\ UNCHANGED <<credentials, activities>>
     ELSE LET credential == TheOne(getCredential(param))
          IN IF RevokeForbidden(getDid(credential.didId), session.userId)
             THEN /\ response' = Fail("revoke", session, param,
                                      credential.id, 403, "Unauthorized")
                  /\ UNCHANGED <<credentials, activities>>
             ELSE /\ RowCount(activities) < MaxActs
                  /\ credentials' =
                       updateCredentialStatus(credentials, credential.id, "revoked")
                  /\ activities' =
                       InsertRow(activities,
                              Activity(credential.didId, "credential_revoked",
                                       credential.id))
                  /\ response' =
                       Respond("revoke", session, param, credential.id,
                               200, "ok", FALSE, NoDetails,
                               [credential EXCEPT !.status = "revoked"], TRUE)

\* ------------------------- POST /api/credentials/selective-disclosure
\* length of the fields array of a request
MaxFields == 1
FieldNames == {"id", "name", "missing"}
FieldLists == UNION {[1..n -> FieldNames] : n \in 0..MaxFields}

\* credentialSubject[field], and whether it is !== undefined
SubjectHas(subject, field) ==
  CASE field = "id" -> TRUE
    [] field = "name" -> subject.name # ""
    [] OTHER -> FALSE
SubjectValue(subject, field) ==
  IF field = "id" THEN subject.id ELSE subject.name

\* a reduce that returns every field of the subject, requested or not: the
\* variant C23 rules out
SelectedDataOfSubject(subject, fields) ==
  [f \in {g \in FieldNames : SubjectHas(subject, g)} |-> SubjectValue(subject, f)]
\* fields.reduce(...): the requested fields the subject has, with their values
SelectedData(subject, fields) ==
  [f \in {g \in Range(fields) : SubjectHas(subject, g)} |-> SubjectValue(subject, f)]

\* selectiveDisclosureRequestSchema: a uuid and at least one field
ValidDisclosureRequest(param, fields) ==
  param.form = "bare" /\ Len(fields) >= 1

SelectiveDisclosure(session, param, fields) ==
  /\ Ready
  /\ UNCHANGED auxVars
  /\ UNCHANGED <<users, currentDid, dids, credentials, verifications, ipfsContent,
                 nextCredId, nextDidId, now>>
  /\ IF ~ValidDisclosureRequest(param, fields)
     THEN /\ response' = [Fail("disclose", session, param, NULL,
                               400, "ValidationError")
                          EXCEPT !.fields = fields]
          /\ UNCHANGED activities
     ELSE IF getCredential(param) = {}
     THEN /\ response' = [Fail("disclose", session, param, NULL,
                               404, "CredentialNotFound")
                          EXCEPT !.fields = fields]
          /\ UNCHANGED activities
     ELSE LET credential == TheOne(getCredential(param))
          IN /\ RowCount(activities) < MaxActs
             /\ activities' =
                  InsertRow(activities,
                         Activity(credential.didId, "credential_shared", credential.id))
             /\ response' =
                  [Respond("disclose", session, param, credential.id,
                           200, "ok", FALSE, NoDetails, NoCredential, TRUE)
                   EXCEPT !.disclosed =
                            SelectedData(credential.credentialSubject, fields),
                          !.fields = fields]

\* ------------------------------------------------ verification inputs
\* credentialData is either text that JSON.parse rejects (a Texts value) or
\* a JSON document.  Documents are copies of a credential as some response
\* returned it (every credential was returned with status "verified" when it
\* was issued), documents written from scratch, and edits of either.
UnknownId == MaxCreds + 1
ForeignSubject ==
  [present |-> TRUE, id |-> ForeignDidString, type |-> "EducationalCredential",
   org |-> "i1", idNumber |-> 0, name |-> ""]
ForeignDoc ==
  [id |-> NULL, didId |-> NULL, type |-> "EducationalCredential", title |-> "t1",
   issuer |-> "i1", expiresAt |-> NULL, status |-> "verified",
   credentialSubject |-> ForeignSubject,
   proof |-> MakeProof(signData(ForeignSubject, PrivateKeyOf(0))),
   ipfsCid |-> generateIpfsCid(ForeignSubject), shareToken |-> NULL]

Snapshots ==
  Range(credentials) \cup {[c EXCEPT !.status = "verified"] : c \in Range(credentials)}

Edits(b) ==
  {b}
  \cup {[b EXCEPT !.status = st] : st \in RawStatuses}
  \cup {[b EXCEPT !.proof = pf] : pf \in {NoProof, MakeProof(EmptySignature)}}
  \cup {[b EXCEPT !.credentialSubject = NoSubject],
        [b EXCEPT !.credentialSubject.name = "tampered"]}
  \cup {[b EXCEPT !.title = ""], [b EXCEPT !.id = NULL], [b EXCEPT !.id = UnknownId]}
  \cup {[b EXCEPT !.expiresAt = t] : t \in Times \cup {NULL}}

JsonDocs == UNION {Edits(b) : b \in Snapshots \cup {ForeignDoc}}

\* credentialData that JSON.parse accepts and that is not an object: null, a
\* number, an array, or a string (one that matches no credential)
JsonNull == [json |-> "null"]
JsonNumber == [json |-> "number"]
JsonArray == [json |-> "array"]
JsonString == [json |-> "string"]
JsonValues == {JsonNull, JsonNumber, JsonArray, JsonString}
\* the request text of such a value, as a response records it
JsonText(value) == [form |-> value.json, key |-> UnknownKey]

\* trimmed.match(/(?:\/verify\/)([A-Za-z0-9-]+)/): the token of a share link
PossibleShareToken(text) ==
  IF text.form = "link" THEN Bare(text.key) ELSE text
\* new URL(trimmed).searchParams.get("shareToken"), tried when trimmed has a "?"
TokenParam(text) ==
  IF text.form = "query" THEN Bare(text.key) ELSE NoText

\* getCredential(trimmed) || getCredentialByShareToken(token) || getCredential(token)
LookupCredential(text) ==
  OrElse(getCredential(text),
         OrElse(getCredentialByShareToken(PossibleShareToken(text)),
                getCredential(PossibleShareToken(text))))

SelfLookupCredential(text) ==
  IF LookupCredential(text) = {} /\ text.form = "query"
  THEN getCredentialByShareToken(TokenParam(text))
  ELSE LookupCredential(text)

\* an expiry test that still accepts a credential at its expiry instant: the
\* variant C17 rules out
NotExpiredInclusive(credential) ==
  IF credential.expiresAt # NULL THEN credential.expiresAt >= now ELSE TRUE
\* credential.expiresAt ? new Date(credential.expiresAt) > new Date() : true
NotExpired(credential) ==
  IF credential.expiresAt # NULL THEN credential.expiresAt > now ELSE TRUE
StatusVerified(credential) == TrimLower(credential.status) = "verified"
IsRevoked(credential) == TrimLower(credential.status) = "revoked"
\* credential.proof && credential.proof.signature
HasSignature(credential) ==
  credential.proof.present /\ credential.proof.signature # EmptySignature

\* -------------------------------------------------- POST /api/verify
IssuerTrusted == TRUE
SelfSignatureValid(credential) == TRUE
SelfProofVerified(credential) == TRUE
\* a verdict that does not read the status: the variant C24 rules out
SelfIsValidAnyStatus(credential) == NotExpired(credential)
SelfIsValid(credential) ==
  /\ ~IsRevoked(credential)
  /\ SelfSignatureValid(credential)
  /\ NotExpired(credential)
  /\ IssuerTrusted
  /\ SelfProofVerified(credential)
  /\ StatusVerified(credential)
SelfDetails(credential) ==
  [signatureValid |-> SelfSignatureValid(credential),
   notExpired |-> NotExpired(credential),
   issuerTrusted |-> IssuerTrusted,
   proofVerified |-> SelfProofVerified(credential)]

\* !credential.proof || !credential.credentialSubject || !credential.title
SelfMalformed(credential) ==
  ~credential.proof.present \/ ~credential.credentialSubject.present
    \/ credential.title = ""

ExampleVerifierDid == [method |-> "example", z |-> 0]

\* isJson: JSON.parse(credentialData) succeeded and gave the document doc;
\* otherwise credentialData is the text
SelfVerify(session, isJson, text, doc) ==
  /\ Ready
  /\ UNCHANGED auxVars
  /\ UNCHANGED <<users, dids, credentials, ipfsContent, nextCredId, nextDidId, now>>
  /\ IF isJson /\ doc \in JsonValues
     THEN /\ response' =
               IF doc = JsonNull
               THEN Fail("verify", session, JsonText(doc), NULL, 500, "Internal")
               ELSE IF doc = JsonString
               THEN Fail("verify", session, JsonText(doc), NULL,
                         400, "CredentialNotFound")
               ELSE Fail("verify", session, JsonText(doc), NULL,
                         400, "MalformedCredential")
          /\ UNCHANGED <<verifications, activities, currentDid>>
     ELSE IF ~isJson /\ SelfLookupCredential(text) = {}
     THEN /\ response' = Fail("verify", session, text, NULL,
                              400, "CredentialNotFound")
          /\ UNCHANGED <<verifications, activities, currentDid>>
     ELSE LET credential == IF isJson THEN doc
                            ELSE TheOne(SelfLookupCredential(text))
          IN IF SelfMalformed(credential)
             THEN /\ response' = [Fail("verify", session, text, credential.id,
                                       400, "MalformedCredential")
                                  EXCEPT !.credential = credential]
                  /\ UNCHANGED <<verifications, activities, currentDid>>
             ELSE IF ~VerificationFkHolds(credential.id)
             THEN /\ response' = [Fail("verify", session, text, credential.id,
                                       500, "Internal")
                                  EXCEPT !.credential = credential]
                  /\ UNCHANGED <<verifications, activities, currentDid>>
             ELSE /\ RowCount(verifications) < MaxVerifs
                  /\ verifications' =
                       InsertRow(verifications,
                              Verification(credential.id, ExampleVerifierDid,
                                           SelfIsValid(credential),
                                           SelfDetails(credential)))
                  /\ IF credential.id # NULL /\ session.userId # NULL
                     THEN /\ currentDid' = CurrentDidAfterLookup(session.userId)
                          /\ IF getCurrentDidForUser(session.userId) # {}
                             THEN /\ RowCount(activities) < MaxActs
                                  /\ activities' =
                                       InsertRow(activities,
                                         Activity(TheOne(getCurrentDidForUser(session.userId)).id,
                                                  "credential_verified", credential.id))
                             ELSE UNCHANGED activities
                     ELSE UNCHANGED <<activities, currentDid>>
                  /\ response' =
                       Respond("verify", session, text, credential.id, 200, "ok",
                               SelfIsValid(credential), SelfDetails(credential),
                               credential, ~isJson)

\* -------------------------------------------- POST /api/admin/verify
\* the signature check against the stored DID, when the DID resolves
ActualSignatureValid(credential) ==
  IF credential.didId # NULL
  THEN /\ getDid(credential.didId) # {}
       /\ HasSignature(credential)
       /\ verifySignature(credential.credentialSubject, credential.proof.signature,
                          TheOne(getDid(credential.didId)).publicKey)
  ELSE FALSE
\* statusVerified ? true : actualSignatureValid
AdminSignatureValid(credential) ==
  IF StatusVerified(credential) THEN TRUE ELSE ActualSignatureValid(credential)
AdminProofVerified(credential) == HasSignature(credential)
AdminIsValid(credential) ==
  /\ ~IsRevoked(credential)
  /\ StatusVerified(credential)
  /\ NotExpired(credential)
  /\ IssuerTrusted
  /\ AdminProofVerified(credential)
AdminDetails(credential) ==
  [signatureValid |-> AdminSignatureValid(credential),
   notExpired |-> NotExpired(credential),
   issuerTrusted |-> IssuerTrusted,
   proofVerified |-> AdminProofVerified(credential),
   statusVerified |-> StatusVerified(credential)]

\* !credential || !credential.proof || !credential.credentialSubject
AdminMalformed(credential) ==
  ~credential.proof.present \/ ~credential.credentialSubject.present

OrgDid(organizationId) == [method |-> "org", z |-> organizationId]

AdminVerify(session, isJson, text, doc) ==
  /\ Ready
  /\ UNCHANGED auxVars
  /\ UNCHANGED <<users, currentDid, dids, credentials, activities, ipfsContent,
                 nextCredId, nextDidId, now>>
  /\ IF ~requireAdminAuth(session)
     THEN /\ response' = Fail("adminVerify", session, text, NULL,
                              401, "Unauthorized")
          /\ UNCHANGED verifications
     ELSE IF isJson /\ doc \in JsonValues
     THEN /\ response' = Fail("adminVerify", session, JsonText(doc), NULL,
                              400, "MalformedCredential")
          /\ UNCHANGED verifications
     ELSE IF ~isJson /\ LookupCredential(text) = {}
     THEN /\ response' = Fail("adminVerify", session, text, NULL,
                              404, "CredentialNotFound")
          /\ UNCHANGED verifications
     ELSE LET credential == IF isJson THEN doc ELSE TheOne(LookupCredential(text))
          IN IF AdminMalformed(credential)
             THEN /\ response' = [Fail("adminVerify", session, text,
                                       credential.id, 400, "MalformedCredential")
                                  EXCEPT !.credential = credential]
                  /\ UNCHANGED verifications
             ELSE IF ~VerificationFkHolds(credential.id)
             THEN /\ response' = [Fail("adminVerify", session, text,
                                       credential.id, 500, "Internal")
                                  EXCEPT !.credential = credential]
                  /\ UNCHANGED verifications
             ELSE /\ RowCount(verifications) < MaxVerifs
                  /\ verifications' =
                       InsertRow(verifications,
                              Verification(credential.id,
                                           OrgDid(session.organizationId),
                                           AdminIsValid(credential),
                                           AdminDetails(credential)))
                  /\ response' =
                       Respond("adminVerify", session, text, credential.id,
                               200, "ok", AdminIsValid(credential),
                               AdminDetails(credential), credential, ~isJson)

\* ------------------------------------------ GET /api/verify/:shareToken
\* a verdict that leaves the expiry date out: the variant C30 rules out
PublicIsValidForever(credential) ==
  ~IsRevoked(credential) /\ StatusVerified(credential)
\* !isRevoked && notExpired && status === "verified"
PublicIsValid(credential) ==
  ~IsRevoked(credential) /\ NotExpired(credential) /\ StatusVerified(credential)
PublicDetails(credential) ==
  [verified |-> StatusVerified(credential), notExpired |-> NotExpired(credential)]

\* getCredentialByShareToken(shareToken) || getCredential(shareToken)
PublicLookupCredential(param) ==
  OrElse(getCredentialByShareToken(param), getCredential(param))

PublicVerify(session, param) ==
  /\ Ready
  /\ UNCHANGED auxVars
  /\ UNCHANGED <<storageVars, now>>
  /\ IF PublicLookupCredential(param) = {}
     THEN response' = Fail("publicVerify", session, param, NULL,
                           404, "CredentialNotFound")
     ELSE LET credential == TheOne(PublicLookupCredential(param))
          IN response' =
               Respond("publicVerify", session, param, credential.id,
                       200, "ok", PublicIsValid(credential),
                       PublicDetails(credential), credential, TRUE)

\* ------------------------------------------- DELETE /api/auth/account
\* storage.deleteUser: one DELETE statement after the other, each committed
\* on its own.  users.currentDidId references dids.id, so the DELETE on dids
\* throws while a users row still points at one of the DIDs.
UserDidIds(userId) == {d.id : d \in getDidsByUserId(userId)}
UserCredentialIds(userId) ==
  {c.id : c \in {x \in Range(credentials) : x.didId \in UserDidIds(userId)}}
KeepVerification(userId, v) == v.credentialId \notin UserCredentialIds(userId)
KeepCredential(userId, c) == c.didId \notin UserDidIds(userId)
KeepActivity(userId, a) == a.didId \notin UserDidIds(userId)
DidDeleteFails(userId) ==
  \E u \in users : currentDid[u] # NULL /\ currentDid[u] \in UserDidIds(userId)

DeleteAccount(session) ==
  /\ Ready
  /\ UNCHANGED auxVars
  /\ UNCHANGED <<ipfsContent, nextCredId, nextDidId, now>>
  /\ IF ~requireAuth(session)
     THEN /\ response' = Fail("deleteAccount", session, NoText, NULL,
                              401, "Unauthorized")
          /\ UNCHANGED <<users, currentDid, dids, credentials, verifications, activities>>
     ELSE IF getUserById(session.userId) = {}
     THEN /\ response' = Fail("deleteAccount", session, NoText, NULL,
                              404, "UserNotFound")
          /\ UNCHANGED <<users, currentDid, dids, credentials, verifications, activities>>
     ELSE LET userId == session.userId
          IN /\ IF UserDidIds(userId) # {}
                THEN /\ verifications' =
                          KeepRows(verifications,
                                   {v \in DOMAIN verifications :
                                      KeepVerification(userId, v)})
                     /\ credentials' =
                          SelectSeq(credentials, LAMBDA c : KeepCredential(userId, c))
                     /\ activities' =
                          KeepRows(activities,
                                   {a \in DOMAIN activities : KeepActivity(userId, a)})
                ELSE UNCHANGED <<verifications, credentials, activities>>
             /\ IF UserDidIds(userId) # {} /\ DidDeleteFails(userId)
                THEN /\ UNCHANGED <<dids, users, currentDid>>
                     /\ response' = Fail("deleteAccount", session, NoText, NULL, 500, "Internal")
                ELSE /\ dids' = {d \in dids : d.userId # userId}
                     /\ users' = users \ {userId}
                     /\ currentDid' = [currentDid EXCEPT ![userId] = NULL]
                     /\ response' = Respond("deleteAccount", session, NoText, NULL, 200, "ok", FALSE,
                                            NoDetails, NoCredential, FALSE)

\* ------------------------------------------------ authentication routes
\* The requests of one browser: they carry the express-session `reqSession`,
\* and the routes below write it.  An email address, a username and the
\* Supabase auth user of an email are all identified by the number of the
\* email; the answers of Supabase are inputs of the requests.
Emails == 1..NumUsers
OrgEmails == 1..NumOrgs
getUserByEmail(email) == {u \in users : accounts[u].email = email}
getUserByUsername(username) == {u \in users : accounts[u].username = username}
getOrganizationByEmail(email) == {o \in organizations : o = email}

\* the tables as storage.deleteUser(userId) leaves them, and whether it threw
deleteUser(userId) ==
  LET hasDids == UserDidIds(userId) # {}
      threw == hasDids /\ DidDeleteFails(userId)
  IN [verifications |->
        IF hasDids
        THEN KeepRows(verifications,
                      {v \in DOMAIN verifications : KeepVerification(userId, v)})
        ELSE verifications,
      credentials |->
        IF hasDids
        THEN SelectSeq(credentials, LAMBDA c : KeepCredential(userId, c))
        ELSE credentials,
      activities |->
        IF hasDids
        THEN KeepRows(activities, {a \in DOMAIN activities : KeepActivity(userId, a)})
        ELSE activities,
      dids |-> IF threw THEN dids ELSE {d \in dids : d.userId # userId},
      users |-> IF threw THEN users ELSE users \ {userId},
      currentDid |->
        IF threw THEN currentDid ELSE [currentDid EXCEPT ![userId] = NULL],
      threw |-> threw]

\* storage.createUser: a row with a fresh id and no current DID
createUser(table, username, email) ==
  [u \in DOMAIN table \cup {nextUserId} |->
     IF u = nextUserId THEN [username |-> username, email |-> email] ELSE table[u]]
NoCurrentDid(cur) ==
  [u \in DOMAIN cur \cup {nextUserId} |-> IF u = nextUserId THEN NULL ELSE cur[u]]

AuthReply(op, code, kind) ==
  Respond(op, reqSession, NoText, NULL, code, kind, FALSE, NoDetails, NoCredential, FALSE)

\* POST /api/auth/register; username = NULL is a body the schema rejects,
\* created is the outcome of supabaseAdmin.auth.admin.createUser
Register(username, email, created) ==
  /\ Ready
  /\ UNCHANGED <<signing, raceVars>>
  /\ nextUserId <= NumUsers + MaxNewUsers
  /\ UNCHANGED <<ipfsContent, nextCredId, nextDidId, now, organizations>>
  /\ IF username = NULL
     THEN /\ response' = AuthReply("register", 400, "ValidationError")
          /\ UNCHANGED <<users, currentDid, dids, credentials, verifications,
                         activities, reqSession, accounts, nextUserId>>
     ELSE IF \E u \in getUserByUsername(username) : accounts[u].email # email
     THEN /\ response' = AuthReply("register", 400, "UsernameExists")
          /\ UNCHANGED <<users, currentDid, dids, credentials, verifications,
                         activities, reqSession, accounts, nextUserId>>
     ELSE LET existing == getUserByEmail(email)
              after == IF existing # {} THEN deleteUser(TheOne(existing))
                       ELSE [verifications |-> verifications,
                             credentials |-> credentials,
                             activities |-> activities, dids |-> dids,
                             users |-> users, currentDid |-> currentDid,
                             threw |-> FALSE]
          IN /\ verifications' = after.verifications
             /\ credentials' = after.credentials
             /\ activities' = after.activities
             /\ dids' = after.dids
             /\ IF ~created
                THEN /\ response' = AuthReply("register", 400, "SupabaseError")
                     /\ users' = after.users
                     /\ currentDid' = after.currentDid
                     /\ UNCHANGED <<reqSession, accounts, nextUserId>>
                ELSE IF after.threw
                THEN \* the old row is still there: users.email is unique
                     /\ response' = AuthReply("register", 500, "Internal")
                     /\ users' = after.users
                     /\ currentDid' = after.currentDid
                     /\ UNCHANGED <<reqSession, accounts, nextUserId>>
                ELSE /\ users' = after.users \cup {nextUserId}
                     /\ currentDid' = NoCurrentDid(after.currentDid)
                     /\ accounts' = createUser(accounts, username, email)
                     /\ nextUserId' = nextUserId + 1
                     /\ reqSession' = [userId |-> nextUserId, organizationId |-> NULL]
                     /\ response' = AuthReply("register", 200, "ok")

\* POST /api/auth/login; signedIn is the outcome of signInWithPassword
Login(email, signedIn) ==
  /\ Ready
  /\ UNCHANGED <<signing, raceVars>>
  /\ nextUserId <= NumUsers + MaxNewUsers
  /\ UNCHANGED <<dids, credentials, verifications, activities, ipfsContent,
                 nextCredId, nextDidId, now, organizations>>
  /\ IF ~signedIn
     THEN /\ response' = AuthReply("login", 401, "InvalidCredentials")
          /\ UNCHANGED <<users, currentDid, reqSession, accounts, nextUserId>>
     ELSE IF getUserByEmail(email) # {}
     THEN /\ reqSession' = [userId |-> TheOne(getUserByEmail(email)),
                         organizationId |-> NULL]
          /\ response' = AuthReply("login", 200, "ok")
          /\ UNCHANGED <<users, currentDid, accounts, nextUserId>>
     ELSE IF getUserByUsername(email) # {}
     THEN \* users.username is unique: createUser throws
          /\ response' = AuthReply("login", 500, "Internal")
          /\ UNCHANGED <<users, currentDid, reqSession, accounts, nextUserId>>
     ELSE /\ users' = users \cup {nextUserId}
          /\ currentDid' = NoCurrentDid(currentDid)
          /\ accounts' = createUser(accounts, email, email)
          /\ nextUserId' = nextUserId + 1
          /\ reqSession' = [userId |-> nextUserId, organizationId |-> NULL]
          /\ response' = AuthReply("login", 200, "ok")

\* POST /api/auth/logout, behind requireAuth
Logout ==
  /\ Ready
  /\ UNCHANGED <<signing, raceVars>>
  /\ UNCHANGED <<storageVars, now, accounts, organizations, nextUserId>>
  /\ IF ~requireAuth(reqSession)
     THEN /\ response' = AuthReply("logout", 401, "Unauthorized")
          /\ UNCHANGED reqSession
     ELSE /\ reqSession' = NoSession
          /\ response' = AuthReply("logout", 200, "ok")

\* POST /api/admin/register; name = NULL is a body the schema rejects
AdminRegister(name, email, created) ==
  /\ Ready
  /\ UNCHANGED <<signing, raceVars>>
  /\ UNCHANGED <<storageVars, now, accounts, nextUserId>>
  /\ IF name = NULL
     THEN /\ response' = AuthReply("adminRegister", 400, "ValidationError")
          /\ UNCHANGED <<reqSession, organizations>>
     ELSE IF getOrganizationByEmail(email) # {}
     THEN /\ response' = AuthReply("adminRegister", 400, "OrganizationExists")
          /\ UNCHANGED <<reqSession, organizations>>
     ELSE IF ~created
     THEN /\ response' = AuthReply("adminRegister", 400, "SupabaseError")
          /\ UNCHANGED <<reqSession, organizations>>
     ELSE /\ organizations' = organizations \cup {email}
          /\ reqSession' = [reqSession EXCEPT !.organizationId = email]
          /\ response' = AuthReply("adminRegister", 200, "ok")

\* POST /api/admin/login
AdminLogin(email, signedIn) ==
  /\ Ready
  /\ UNCHANGED <<signing, raceVars>>
  /\ UNCHANGED <<storageVars, now, accounts, organizations, nextUserId>>
  /\ IF ~signedIn
     THEN /\ response' = AuthReply("adminLogin", 401, "InvalidCredentials")
          /\ UNCHANGED reqSession
     ELSE IF getOrganizationByEmail(email) = {}
     THEN /\ response' = AuthReply("adminLogin", 401, "OrganizationNotFound")
          /\ UNCHANGED reqSession
     ELSE /\ reqSession' = [userId |-> NULL,
                         organizationId |-> TheOne(getOrganizationByEmail(email))]
          /\ response' = AuthReply("adminLogin", 200, "ok")

\* POST /api/admin/logout: no middleware
AdminLogout ==
  /\ Ready
  /\ UNCHANGED <<signing, raceVars>>
  /\ UNCHANGED <<storageVars, now, accounts, organizations, nextUserId>>
  /\ reqSession' = NoSession
  /\ response' = AuthReply("adminLogout", 200, "ok")

\* ------------------------------------------- signData / verifySignature
KeyIds == 1..MaxDids
SignPayload ==
  /\ signing.pc = "start"
  /\ signing' = [signing EXCEPT
                   !.signature = signData(signing.data,
                                          generateKeyPair(signing.k).privateKey),
                   !.pc = "signed"]
  /\ UNCHANGED <<storageVars, now, response, authVars, raceVars>>

VerifyCandidate ==
  /\ signing.pc = "signed"
  /\ signing' = [signing EXCEPT
                   !.verdict = verifySignature(signing.candidate, signing.signature,
                                               generateKeyPair(signing.pubk).publicKey),
                   !.pc = "verified"]
  /\ UNCHANGED <<storageVars, now, response, authVars, raceVars>>

\* ------------------------------------ interleaved revoke and verification
\* PATCH /api/credentials/:id/revoke and POST /api/verify, one action per
\* awaited storage call; between two awaits of a handler the calls of the
\* other one may run.
\* await storage.getCredential(credentialId)
RevokeRead(session, param) ==
  /\ revoking.pc = "idle"
  /\ revoking' =
       IF ~requireAuth(session)
       THEN [NotRevoking EXCEPT !.pc = "done", !.session = session,
                                !.param = param, !.code = 401]
       ELSE IF getCredential(param) = {}
       THEN [NotRevoking EXCEPT !.pc = "done", !.session = session,
                                !.param = param, !.code = 404]
       ELSE [NotRevoking EXCEPT !.pc = "read", !.session = session,
                                !.param = param,
                                !.credential = TheOne(getCredential(param))]
  /\ UNCHANGED <<storageVars, now, response, authVars, signing, verifying>>

\* await storage.getDid(credential.didId)
RevokeCheck ==
  /\ revoking.pc = "read"
  /\ revoking' =
       IF RevokeForbidden(getDid(revoking.credential.didId), revoking.session.userId)
       THEN [revoking EXCEPT !.pc = "done", !.code = 403]
       ELSE [revoking EXCEPT !.pc = "checked"]
  /\ UNCHANGED <<storageVars, now, response, authVars, signing, verifying>>

\* await storage.updateCredentialStatus(credentialId, "revoked")
RevokeUpdate ==
  /\ revoking.pc = "checked"
  /\ IF CredentialById(revoking.credential.id) = {}
     THEN /\ revoking' = [revoking EXCEPT !.pc = "done", !.code = 500]
          /\ UNCHANGED credentials
     ELSE /\ credentials' =
               updateCredentialStatus(credentials, revoking.credential.id, "revoked")
          /\ revoking' = [revoking EXCEPT !.pc = "updated"]
  /\ UNCHANGED <<users, currentDid, dids, verifications, activities, ipfsContent,
                 nextCredId, nextDidId, now, response, authVars, signing, verifying>>

\* await storage.createActivity(...); res.json(updatedCredential)
RevokeLog ==
  /\ revoking.pc = "updated"
  /\ RowCount(activities) < MaxActs
  /\ activities' =
       InsertRow(activities,
                 Activity(revoking.credential.didId, "credential_revoked",
                          revoking.credential.id))
  /\ revoking' = [revoking EXCEPT !.pc = "done", !.code = 200]
  /\ UNCHANGED <<users, currentDid, dids, credentials, verifications, ipfsContent,
                 nextCredId, nextDidId, now, response, authVars, signing, verifying>>

\* The queries of the lookup chain up to the one that returns a row, and the
\* checks computed from that row before the next await.  Rows are neither
\* inserted nor deleted by the other handler, so the row is the one the
\* last query of the chain sees.
VerifyRead(session, text) ==
  /\ verifying.pc \in {"idle", "done"}
  /\ verifying' =
       IF SelfLookupCredential(text) = {}
       THEN [NotVerifying EXCEPT !.pc = "done", !.session = session,
                                 !.text = text, !.code = 400]
       ELSE LET credential == TheOne(SelfLookupCredential(text))
            IN IF SelfMalformed(credential)
               THEN [NotVerifying EXCEPT !.pc = "done", !.session = session,
                                         !.text = text, !.code = 400]
               ELSE [pc |-> "found", session |-> session, text |-> text,
                     credential |-> credential,
                     isValid |-> SelfIsValid(credential),
                     afterRevoke |-> /\ revoking.pc = "done"
                                     /\ revoking.code = 200
                                     /\ revoking.credential.id = credential.id,
                     code |-> 0]
  /\ UNCHANGED <<storageVars, now, response, authVars, signing, revoking>>

\* await storage.createVerification(...)
VerifyRecord ==
  /\ verifying.pc = "found"
  /\ IF ~VerificationFkHolds(verifying.credential.id)
     THEN /\ verifying' = [verifying EXCEPT !.pc = "done", !.code = 500]
          /\ UNCHANGED verifications
     ELSE /\ RowCount(verifications) < MaxVerifs
          /\ verifications' =
               InsertRow(verifications,
                         Verification(verifying.credential.id, ExampleVerifierDid,
                                      verifying.isValid,
                                      SelfDetails(verifying.credential)))
          /\ verifying' =
               IF verifying.credential.id # NULL /\ verifying.session.userId # NULL
               THEN [verifying EXCEPT !.pc = "recorded"]
               ELSE [verifying EXCEPT !.pc = "done", !.code = 200]
  /\ UNCHANGED <<users, currentDid, dids, credentials, activities, ipfsContent,
                 nextCredId, nextDidId, now, response, authVars, signing, revoking>>

\* await storage.getCurrentDidForUser(...); await storage.createActivity(...);
\* res.json(...): the revoke handler reads and writes neither table
VerifyLog ==
  /\ verifying.pc = "recorded"
  /\ currentDid' = CurrentDidAfterLookup(verifying.session.userId)
  /\ IF getCurrentDidForUser(verifying.session.userId) # {}
     THEN /\ RowCount(activities) < MaxActs
          /\ activities' =
               InsertRow(activities,
                         Activity(TheOne(getCurrentDidForUser(verifying.session.userId)).id,
                                  "credential_verified", verifying.credential.id))
     ELSE UNCHANGED activities
  /\ verifying' = [verifying EXCEPT !.pc = "done", !.code = 200]
  /\ UNCHANGED <<users, dids, credentials, verifications, ipfsContent,
                 nextCredId, nextDidId, now, response, authVars, signing, revoking>>

\* ------------------------------------------------------------------ Next
\* The requests served.  Callers: no session or a user's session; the
\* verifier organization's session is OrgSession.
Callers == {NoSession} \cup {UserSession(u) : u \in Users}
ExpiresDates == {NULL, MaxTime}
IssuedDates == {NULL, MaxTime, InvalidDate}
CustomTypes == {"", "CustomCredential"}
DisclosureParams == PathParams \cup {[form |-> "link", key |-> UnknownKey]}
ShareTokens == {Bare(TokenKey(n)) : n \in 1..MaxCreds}
RecordIds == {Bare(IdKey(n)) : n \in 1..MaxCreds}
UserSessions == {UserSession(u) : u \in Users}
\* the users who have not created an identity yet
FirstTimers == {s \in UserSessions : getDidsByUserId(s.userId) = {}}

\* Spec: every handler; identities, issuance, revocation and account
\* deletion by every caller, verification by share token.
Next ==
  \/ Tick
  \/ SendResponse
  \/ \E session \in Callers : CreateIdentity(session)
  \/ \E session \in Callers, type \in Types \cup {""}, title \in Titles,
        issuer \in Issuers, expiresDate \in ExpiresDates :
       IssueCredential(session, type, title, issuer, NULL, expiresDate)
  \/ \E session \in Callers, type \in CustomTypes, title \in Titles,
        issuer \in Issuers, credentialData \in ObjectClaims :
       IssueCustomCredential(session, type, title, issuer, NULL, NULL,
                             credentialData)
  \/ \E param \in PathParams : GetCredentialById(NoSession, param)
  \/ \E session \in Callers, param \in PathParams : RevokeCredential(session, param)
  \/ \E param \in DisclosureParams, fields \in FieldLists :
       SelectiveDisclosure(NoSession, param, fields)
  \/ \E text \in ShareTokens : SelfVerify(NoSession, FALSE, text, NoCredential)
  \/ \E text \in ShareTokens : AdminVerify(OrgSession, FALSE, text, NoCredential)
  \/ \E param \in ShareTokens : PublicVerify(NoSession, param)
  \/ \E session \in Callers : DeleteAccount(session)

Spec == Init /\ [][Next]_vars

\* SpecVerify: every handler; one kind of credential, verification of every
\* text form of every key and of every document of JsonDocs.
NextVerify ==
  \/ Tick
  \/ SendResponse
  \/ \E session \in UserSessions : CreateIdentity(session)
  \/ \E session \in UserSessions, expiresDate \in ExpiresDates :
       IssueCredential(session, "EducationalCredential", "t1", "i1", NULL, expiresDate)
  \/ \E session \in UserSessions :
       IssueCustomCredential(session, "CustomCredential", "t1", "i1", NULL, NULL,
                             AnaClaims)
  \/ \E param \in RecordIds : GetCredentialById(NoSession, param)
  \/ \E session \in UserSessions, param \in RecordIds :
       RevokeCredential(session, param)
  \/ \E param \in RecordIds : SelectiveDisclosure(NoSession, param, <<"id">>)
  \/ \E session \in Callers, text \in Texts :
       SelfVerify(session, FALSE, text, NoCredential)
  \/ \E doc \in JsonDocs \cup JsonValues : SelfVerify(NoSession, TRUE, NoText, doc)
  \/ \E session \in {NoSession, OrgSession}, text \in Texts :
       AdminVerify(session, FALSE, text, NoCredential)
  \/ \E doc \in JsonDocs \cup JsonValues : AdminVerify(OrgSession, TRUE, NoText, doc)
  \/ \E param \in PathParams : PublicVerify(NoSession, param)
  \/ DeleteAccount(UserSession(1))

SpecVerify == Init /\ [][NextVerify]_vars

\* SpecIssue: one identity per user but the last, and issuance with every issued date,
\* expiry date and kind of claims value of a request, on a clock that stands
\* still.
NextIssue ==
  \/ SendResponse
  \/ \E session \in FirstTimers \ {UserSession(NumUsers)} : CreateIdentity(session)
  \/ \E session \in Callers, type \in Types \cup {""}, title \in Titles,
        issuer \in Issuers, issuedDate \in IssuedDates, expiresDate \in ExpiresDates :
       IssueCredential(session, type, title, issuer, issuedDate, expiresDate)
  \/ \E session \in Callers, type \in CustomTypes, title \in Titles,
        issuer \in Issuers, issuedDate \in IssuedDates, expiresDate \in ExpiresDates,
        credentialData \in CustomClaims :
       IssueCustomCredential(session, type, title, issuer, issuedDate, expiresDate,
                             credentialData)
  \/ \E param \in PathParams : GetCredentialById(NoSession, param)

SpecIssue == Init /\ [][NextIssue]_vars

\* SpecShare: identities, templated issuance without an expiry date and with
\* the first and the last date of the clock as expiry date, the
\* three verification routes given a share token (bare, or as a share link
\* where the route reads text) and the deletion of user 1's account, on a
\* running clock.
ShareLinks == {[form |-> "link", key |-> TokenKey(n)] : n \in 1..MaxCreds}
NextShare ==
  \/ Tick
  \/ SendResponse
  \/ \E session \in FirstTimers : CreateIdentity(session)
  \/ \E session \in UserSessions, expiresDate \in {NULL, 1, MaxTime} :
       IssueCredential(session, "EducationalCredential", "t1", "i1", NULL, expiresDate)
  \/ \E text \in ShareTokens \cup ShareLinks :
       SelfVerify(NoSession, FALSE, text, NoCredential)
  \/ \E text \in ShareTokens \cup ShareLinks :
       AdminVerify(OrgSession, FALSE, text, NoCredential)
  \/ \E param \in ShareTokens : PublicVerify(NoSession, param)
  \/ DeleteAccount(UserSession(1))

SpecShare == Init /\ [][NextShare]_vars

\* SpecDisclose: identities, a templated and a custom credential, reading and
\* selective disclosure with every credential id and field list of a request.
NextDisclose ==
  \/ SendResponse
  \/ \E session \in FirstTimers : CreateIdentity(session)
  \/ \E session \in UserSessions :
       IssueCredential(session, "EducationalCredential", "t1", "i1", NULL, NULL)
  \/ \E session \in UserSessions :
       IssueCustomCredential(session, "CustomCredential", "t1", "i1", NULL, NULL,
                             AnaClaims)
  \/ \E param \in RecordIds : GetCredentialById(NoSession, param)
  \/ \E param \in DisclosureParams, fields \in FieldLists :
       SelectiveDisclosure(NoSession, param, fields)

SpecDisclose == Init /\ [][NextDisclose]_vars

\* SpecCore: identities, issuance, reading, revocation, verification and
\* the deletion of user 1's account on a clock that stands still.  The templated credential
\* is issued with an expiry date that is not in the future, the custom one
\* without an expiry date.
NextCore ==
  \/ SendResponse
  \/ \E session \in UserSessions : CreateIdentity(session)
  \/ \E session \in UserSessions :
       IssueCredential(session, "EducationalCredential", "t1", "i1", NULL, now)
  \/ \E session \in UserSessions :
       IssueCustomCredential(session, "CustomCredential", "t1", "i1", NULL, NULL,
                             AnaClaims)
  \/ \E param \in RecordIds : GetCredentialById(NoSession, param)
  \/ \E session \in UserSessions, param \in RecordIds : RevokeCredential(session, param)
  \/ \E text \in ShareTokens : SelfVerify(NoSession, FALSE, text, NoCredential)
  \/ \E param \in ShareTokens : PublicVerify(NoSession, param)
  \/ DeleteAccount(UserSession(1))

SpecCore == Init /\ [][NextCore]_vars

\* SpecAuth: the authentication routes on one browser session, and the
\* requests that browser sends with it; accounts are also deleted from the
\* sessions of other browsers.
NextAuth ==
  \/ SendResponse
  \/ \E username \in Emails \cup {NULL}, email \in Emails, created \in BOOLEAN :
       Register(username, email, created)
  \/ \E email \in Emails, signedIn \in BOOLEAN : Login(email, signedIn)
  \/ Logout
  \/ \E name \in {NULL, 1}, email \in OrgEmails, created \in BOOLEAN :
       AdminRegister(name, email, created)
  \/ \E email \in OrgEmails, signedIn \in BOOLEAN : AdminLogin(email, signedIn)
  \/ AdminLogout
  \/ CreateIdentity(reqSession)
  \/ IssueCredential(reqSession, "EducationalCredential", "t1", "i1", NULL, NULL)
  \/ \E text \in ShareTokens : AdminVerify(reqSession, FALSE, text, NoCredential)
  \/ \E s \in UserSessions : DeleteAccount(s)

SpecAuth == Init /\ [][NextAuth]_vars

\* SpecAccess: every route that reads the session, called without a
\* session, with every user's session and with the organization's session,
\* and the public routes; no clock, no account deletion.  Users are issued
\* templated credentials; the custom route is called by the sessions that
\* hold no user id.
AnySessions == {NoSession, OrgSession} \cup UserSessions
NextAccess ==
  \/ SendResponse
  \/ \E session \in AnySessions : CreateIdentity(session)
  \/ \E session \in AnySessions : GetCurrentDid(session)
  \/ \E session \in AnySessions :
       IssueCredential(session, "EducationalCredential", "t1", "i1", NULL, NULL)
  \/ \E session \in {NoSession, OrgSession} :
       IssueCustomCredential(session, "CustomCredential", "t1", "i1", NULL, NULL,
                             AnaClaims)
  \/ \E session \in AnySessions, param \in RecordIds : RevokeCredential(session, param)
  \/ \E param \in RecordIds : GetCredentialById(NoSession, param)
  \/ \E param \in RecordIds : SelectiveDisclosure(NoSession, param, <<"id">>)
  \/ \E session \in AnySessions, text \in ShareTokens :
       SelfVerify(session, FALSE, text, NoCredential)
  \/ \E session \in AnySessions, text \in ShareTokens :
       AdminVerify(session, FALSE, text, NoCredential)
  \/ \E session \in AnySessions, param \in ShareTokens : PublicVerify(session, param)

SpecAccess == Init /\ [][NextAccess]_vars

\* SpecEntry: the three verification routes given the share token of a
\* templated credential, which its owner may revoke, on a running clock.  The
\* credential is an educational one without an expiry date or with the last
\* date of the clock, or user 1's government id with the default expiry date.
NextEntry ==
  \/ Tick
  \/ SendResponse
  \/ \E session \in FirstTimers : CreateIdentity(session)
  \/ \E session \in UserSessions, expiresDate \in {NULL, MaxTime} :
       IssueCredential(session, "EducationalCredential", "t1", "i1", NULL, expiresDate)
  \/ IssueCredential(UserSession(1), "GovernmentID", "t1", "i1", NULL, NULL)
  \/ \E session \in UserSessions, param \in RecordIds : RevokeCredential(session, param)
  \/ \E text \in ShareTokens : SelfVerify(NoSession, FALSE, text, NoCredential)
  \/ \E text \in ShareTokens : AdminVerify(OrgSession, FALSE, text, NoCredential)
  \/ \E param \in ShareTokens : PublicVerify(NoSession, param)

SpecEntry == Init /\ [][NextEntry]_vars

\* SpecSign: signData and verifySignature applied to every pair of payloads
\* of JsValues, with the key pair that signed and with another one.
InitSign ==
  /\ InitServer
  /\ signing \in [data : JsValues, candidate : JsValues, k : KeyIds, pubk : KeyIds,
                  signature : {EmptySignature}, verdict : {FALSE}, pc : {"start"}]
NextSign ==
  \/ SignPayload
  \/ VerifyCandidate

SpecSign == InitSign /\ [][NextSign]_vars

\* SpecRace: identities and credentials are created; one revoke request and
\* self-serve verifications of a share token (anonymous or by user 1) run
\* one storage call at a time, in every order.
NextRace ==
  \/ SendResponse
  \/ \E session \in FirstTimers : CreateIdentity(session)
  \/ \E session \in UserSessions :
       IssueCredential(session, "EducationalCredential", "t1", "i1", NULL, NULL)
  \/ \E session \in UserSessions, param \in RecordIds : RevokeRead(session, param)
  \/ RevokeCheck
  \/ RevokeUpdate
  \/ RevokeLog
  \/ \E session \in {NoSession, UserSession(1)}, text \in ShareTokens :
       VerifyRead(session, text)
  \/ VerifyRecord
  \/ VerifyLog

SpecRace == Init /\ [][NextRace]_vars

\* ================================================================ claims
VerifyOps == {"verify", "adminVerify", "publicVerify"}
\* the last step served a verification request and answered with a verdict
Verdict == response.op \in VerifyOps /\ response.code = 200
StoredCredentials == Range(credentials)
\* doc is the JSON of credential c as an earlier response returned it: as it
\* is stored now, or as it was issued
IsDocumentOf(doc, c) == doc = c \/ doc = [c EXCEPT !.status = "verified"]
\* the user a credential belongs to: Credential -> DID -> userId
OwnerIds(c) == {d.userId : d \in {e \in dids : e.id = c.didId}}
PresentsShareToken(text, c) ==
  text.form \in {"bare", "link", "query"} /\ text.key = TokenKey(c.shareToken)

\* C1: a verdict on a credential whose stored status is revoked, whatever the
\* entry point and whatever the input form (id, share token, share link, the
\* credential's JSON document), has isValid = FALSE.
C1_RevokedNeverValid ==
  \A c \in StoredCredentials :
    (Verdict /\ c.status = "revoked" /\ IsDocumentOf(response.credential, c))
      => ~response.isValid

\* C2: every verdict's isValid equals
\* !isRevoked /\ statusVerified /\ notExpired /\ issuerTrusted /\ proofVerified
\* of the credential the input resolved to, with proofVerified true iff the
\* proof is present and its signature is non-empty.
C2_IsValidFormula ==
  Verdict =>
    (response.isValid <=>
       (/\ TrimLower(response.credential.status) # "revoked"
        /\ TrimLower(response.credential.status) = "verified"
        /\ (response.credential.expiresAt = NULL \/ response.credential.expiresAt > now)
        /\ TRUE
        /\ response.credential.proof.present
        /\ response.credential.proof.signature # EmptySignature))

\* C3: when the credential's DID resolves in storage, the signatureValid
\* detail of a self-serve or admin verdict is the result of verifying the
\* proof signature over the credentialSubject with that DID's public key.
C3_SignatureDetailIsReal ==
  \A d \in dids :
    (/\ Verdict
     /\ response.op \in {"verify", "adminVerify"}
     /\ response.credential.didId = d.id)
      => (response.details.signatureValid <=>
            (/\ response.credential.proof.present
             /\ response.credential.proof.signature.k = d.publicKey.k
             /\ response.credential.proof.signature.k # 0
             /\ response.credential.proof.signature.data
                  = response.credential.credentialSubject))

\* C4: a step that answers a verification with a verdict appends exactly one
\* Verification row whose isValid is the verdict's, and leaves the rows
\* already stored as they were.
C4_VerdictAppendsOne ==
  [][(response'.op \in VerifyOps /\ response'.code = 200 /\ response' # response)
       => \E row \in DOMAIN verifications' :
            /\ verifications' = InsertRow(verifications, row)
            /\ row.isValid = (IF response'.isValid THEN "true" ELSE "false")]_vars

\* C5: a response to a caller without a session that returns or discloses a
\* stored credential answers a request that presented that credential's
\* share token.
C5_OnlyShareTokenResolves ==
  \A c \in StoredCredentials :
    (/\ response.session = NoSession
     /\ response.code = 200
     /\ response.stored
     /\ response.id = c.id)
      => PresentsShareToken(response.text, c)

\* C6: a step changes a stored credential's status only as a revoke that the
\* user owning the credential's DID requested: the status becomes revoked
\* and one credential_revoked activity is added.  A revoke requested for an
\* unknown credential id, or by a user who does not own the credential's
\* DID, is rejected and leaves credentials and activities as they were.
C6_RevokeOnlyByOwner ==
  [][/\ \A c \in Range(credentials), c2 \in Range(credentials') :
          (c2.id = c.id /\ c2.status # c.status)
            => /\ response'.op = "revoke"
               /\ response'.code = 200
               /\ response'.id = c.id
               /\ response'.session.userId \in OwnerIds(c)
               /\ c2.status = "revoked"
               /\ activities' =
                    InsertRow(activities,
                              Activity(c.didId, "credential_revoked", c.id))
     /\ (/\ response'.op = "revoke"
         /\ \A c \in Range(credentials) :
              response'.text = Bare(IdKey(c.id))
                => response'.session.userId \notin OwnerIds(c))
          => /\ response'.code \in {401, 403, 404}
             /\ credentials' = credentials
             /\ activities' = activities]_vars

\* C6 witness: a user who does not own the credential's DID asked to revoke
\* it, was answered 403, and the credential still has status verified
C6_Witness ==
  \E c \in StoredCredentials :
    /\ response.op = "revoke"
    /\ response.code = 403
    /\ response.id = c.id
    /\ response.session.userId # NULL
    /\ OwnerIds(c) # {}
    /\ response.session.userId \notin OwnerIds(c)
    /\ c.status = "verified"

\* C7: a step leaves every stored credential that it keeps as it was, or sets
\* its status to revoked in a revoke; a row a step creates has status
\* verified.  So no stored status is ever expired or pending, none leaves
\* revoked, and no other field changes.
C7_OnlyRevokeChangesRecord ==
  [][/\ \A c \in Range(credentials), c2 \in Range(credentials') :
          c2.id = c.id
            => \/ c2 = c
               \/ /\ c2 = [c EXCEPT !.status = "revoked"]
                  /\ response'.op = "revoke"
     /\ \A c2 \in Range(credentials') :
          (\A c \in Range(credentials) : c.id # c2.id) => c2.status = "verified"
     /\ \A i, j \in 1..Len(credentials') :
          credentials'[i].id = credentials'[j].id => i = j]_vars

\* C7 witness: a verification has just answered that a stored credential is
\* past its expiry, and the stored status of that credential is still verified
C7_Witness ==
  \E c \in StoredCredentials :
    /\ Verdict
    /\ response.id = c.id
    /\ ~response.details.notExpired
    /\ ~response.isValid
    /\ c.expiresAt # NULL
    /\ c.expiresAt <= now
    /\ c.status = "verified"

\* C8: a revoke that the owner requests for a credential whose status is
\* already revoked is not answered as a success and adds no activity.
C8_SecondRevokeRejected ==
  [][\A c \in Range(credentials) :
       (/\ response'.op = "revoke"
        /\ response'.text = Bare(IdKey(c.id))
        /\ response'.session.userId \in OwnerIds(c)
        /\ c.status = "revoked")
         => /\ response'.code # 200
            /\ activities' = activities]_vars

\* C9: a templated issuance request that passes validation, from a caller
\* with a current DID, is answered 200, stores one new credential with status
\* verified owned by that DID, and adds one credential_issued activity.
C9_ValidIssuePersists ==
  [][(/\ response'.op = "issue"
      /\ response'.session.userId \in users
      /\ currentDid[response'.session.userId] # NULL
      /\ response'.body.type # ""
      /\ response'.body.title # ""
      /\ response'.body.issuer # "")
       => /\ response'.code = 200
          /\ Len(credentials') = Len(credentials) + 1
          /\ SubSeq(credentials', 1, Len(credentials)) = credentials
          /\ credentials'[Len(credentials')].status = "verified"
          /\ credentials'[Len(credentials')].didId
               = currentDid[response'.session.userId]
          /\ activities' =
               InsertRow(activities,
                         Activity(currentDid[response'.session.userId],
                                  "credential_issued",
                                  credentials'[Len(credentials')].id))]_vars

C11_FailedIssueWritesNothing ==
  [][(/\ response'.op \in {"issue", "issueCustom"}
      /\ response'.code # 200)
       => /\ ipfsContent' = ipfsContent
          /\ credentials' = credentials
          /\ activities' = activities]_vars

\* C12: every stored credential whose DID is stored has that DID's string as
\* credentialSubject.id, and its proof signature is the signature of its
\* stored credentialSubject under that DID's private key.
C12_SubjectIdIsOwnerDid ==
  \A c \in StoredCredentials : \A d \in dids :
    d.id = c.didId
      => /\ c.credentialSubject.id = d.didString
         /\ c.proof = MakeProof([data |-> c.credentialSubject, k |-> d.privateKey.k])

\* C13: a custom issuance request whose credentialData is a number or an
\* array is answered with an error, and no content-hash record, credential
\* or activity is written.
C13_NonObjectClaimsRejected ==
  [][(/\ response'.op = "issueCustom"
      /\ response'.body.dataKind \in {"number", "array"}
      /\ response'.body.issuedDate # InvalidDate)
       => /\ response'.code # 200
          /\ ipfsContent' = ipfsContent
          /\ credentials' = credentials
          /\ activities' = activities]_vars

C15_FirstDidStaysCurrent ==
  [][/\ \A u \in users' :
          {d \in dids' : d.userId = u} # {}
            => currentDid'[u] \in {d.id : d \in {e \in dids' : e.userId = u}}
     /\ \A u \in users :
          (/\ response'.op = "createDid"
           /\ response'.code = 200
           /\ response'.session.userId = u
           /\ currentDid[u] # NULL)
            => /\ Cardinality(dids') = Cardinality(dids) + 1
               /\ currentDid'[u] = currentDid[u]]_vars

\* C16: an account-deletion request of a stored user removes the user row,
\* the user's DIDs, the credentials of those DIDs, the verifications of those
\* credentials and the activities of those DIDs, all of them.
C16_DeleteRemovesEverything ==
  [][\A u \in users :
       (response'.op = "deleteAccount" /\ response'.session.userId = u)
         => /\ u \notin users'
            /\ \A d \in dids' : d.userId # u
            /\ \A c \in Range(credentials') : c.didId \notin UserDidIds(u)
            /\ \A v \in DOMAIN verifications' :
                 v.credentialId \notin UserCredentialIds(u)
            /\ \A a \in DOMAIN activities' : a.didId \notin UserDidIds(u)]_vars

\* C17: in every verdict, of any of the three routes, notExpired is true
\* exactly when the credential has no expiresAt or an expiresAt strictly later
\* than the time of the verification; a credential whose expiresAt is that
\* time or earlier has isValid = FALSE.
C17_ExpiryIsStrict ==
  Verdict =>
    /\ response.details.notExpired
          <=> (\/ response.credential.expiresAt = NULL
               \/ response.credential.expiresAt > now)
    /\ (/\ response.credential.expiresAt # NULL
        /\ response.credential.expiresAt <= now)
         => ~response.isValid

\* C17 witness: the public route answered on a stored credential, otherwise
\* in order, at the very time of its expiresAt: expired and not valid
C17_Witness ==
  \E c \in StoredCredentials :
    /\ response.op = "publicVerify"
    /\ response.code = 200
    /\ response.credential = c
    /\ c.status = "verified"
    /\ c.expiresAt = now
    /\ ~response.details.notExpired
    /\ ~response.isValid

\* C18: the credential a successful issuance stores has, when the request
\* supplies an expiry date, that date as expiresAt; without one, a templated
\* GovernmentID has its issued date (the supplied one, else the time of the
\* request) plus five years, and every other credential has no expiresAt.
C18_DefaultExpiryFromIssuedDate ==
  [][(response'.op \in {"issue", "issueCustom"} /\ response'.code = 200)
       => response'.credential.expiresAt =
            (IF response'.body.expiresDate # NULL
             THEN response'.body.expiresDate
             ELSE IF response'.op = "issue" /\ response'.body.type = "GovernmentID"
                  THEN (IF response'.body.issuedDate # NULL
                        THEN response'.body.issuedDate ELSE now) + FiveYears
                  ELSE NULL)]_vars

\* C19: a self-serve or admin verification of a JSON document that lacks
\* proof, credentialSubject or title is answered 400 MalformedCredential and
\* writes no verification and no activity.
C19_IncompleteDocumentRejected ==
  [][(/\ response'.op \in {"verify", "adminVerify"}
      /\ response'.text = NoText
      /\ response'.credential # NoCredential
      /\ \/ ~response'.credential.proof.present
         \/ ~response'.credential.credentialSubject.present
         \/ response'.credential.title = "")
       => /\ response'.code = 400
          /\ response'.kind = "MalformedCredential"
          /\ verifications' = verifications
          /\ activities' = activities]_vars

\* C20: a self-serve or admin verification (the latter with an organization
\* session) of input that is not a JSON object - text that is not JSON, or
\* the JSON of null, a number, a string or an array - is answered with a
\* verdict or with MalformedCredential or CredentialNotFound, never with an
\* internal failure, and writes nothing unless it answers with a verdict.
C20_NoInternalFailure ==
  [][(/\ response'.op \in {"verify", "adminVerify"}
      /\ response'.text # NoText
      /\ (response'.op = "adminVerify" => response'.session.organizationId # NULL))
       => /\ response'.kind \in {"ok", "MalformedCredential", "CredentialNotFound"}
          /\ response'.code # 500
          /\ response'.code # 200
               => /\ verifications' = verifications
                  /\ activities' = activities]_vars

\* C21: a self-serve verification of a JSON document that has proof,
\* credentialSubject and title and whose id, if it has one, is the id of no
\* stored credential is answered with a verdict, adds exactly one
\* verification whose credentialId is unset, and adds no activity.
C21_AdHocDocumentVerifiable ==
  [][(/\ response'.op = "verify"
      /\ response'.text = NoText
      /\ response'.credential # NoCredential
      /\ response'.credential.proof.present
      /\ response'.credential.credentialSubject.present
      /\ response'.credential.title # ""
      /\ \A c \in Range(credentials) : c.id # response'.credential.id)
       => /\ response'.code = 200
          /\ \E row \in DOMAIN verifications' :
               /\ verifications' = InsertRow(verifications, row)
               /\ row.credentialId = NULL
          /\ activities' = activities]_vars

\* C22: a self-serve verification that answers with a verdict adds one
\* credential_verified activity when the caller has a user session and the
\* input resolved to a stored credential, and leaves the activities as they
\* were otherwise.
C22_VerifiedActivityIffUserAndStored ==
  [][(response'.op = "verify" /\ response'.code = 200)
       => IF response'.session.userId # NULL /\ response'.stored
          THEN \E row \in DOMAIN activities' :
                 /\ activities' = InsertRow(activities, row)
                 /\ row.type = "credential_verified"
                 /\ row.credentialId = response'.id
          ELSE activities' = activities]_vars

\* C23: a selective disclosure of a stored credential with a non-empty field
\* list is answered 200 with a map whose keys are the requested names the
\* credentialSubject has, each with the subject's value, and adds one
\* credential_shared activity; every other disclosure request is answered
\* with an error and adds no activity.
C23_DisclosesRequestedPresentFields ==
  [][response'.op = "disclose"
       => IF /\ response'.text.form = "bare"
             /\ Len(response'.fields) >= 1
             /\ \E c \in Range(credentials) : response'.text.key = IdKey(c.id)
          THEN \A c \in Range(credentials) :
                 response'.text.key = IdKey(c.id)
                   => /\ response'.code = 200
                      /\ DOMAIN response'.disclosed =
                           {f \in Range(response'.fields) :
                              \/ f = "id"
                              \/ f = "name" /\ c.credentialSubject.name # ""}
                      /\ \A f \in DOMAIN response'.disclosed :
                           response'.disclosed[f] =
                             (IF f = "id" THEN c.credentialSubject.id
                              ELSE c.credentialSubject.name)
                      /\ activities' =
                           InsertRow(activities,
                                     Activity(c.didId, "credential_shared", c.id))
          ELSE /\ response'.code \in {400, 404}
               /\ response'.disclosed = NoDisclosure
               /\ activities' = activities]_vars

\* C23 witness: a disclosure of a stored credential that asked only for a
\* field the subject does not have was answered 200 with an empty map
C23_Witness ==
  \E c \in StoredCredentials :
    /\ response.op = "disclose"
    /\ response.code = 200
    /\ response.id = c.id
    /\ response.fields = <<"missing">>
    /\ response.disclosed = NoDisclosure

\* C27: after any sequence of user register, user login, admin register,
\* admin login and logout requests on one session, the session never holds a
\* user id and an organization id at the same time.
C27_SessionHoldsOneIdentity ==
  ~(reqSession.userId # NULL /\ reqSession.organizationId # NULL)

\* C28: a user's record, DIDs and credentials are deleted only by an
\* account-deletion request made from that user's own authenticated session;
\* no other request, a registration naming an already-registered email
\* included, removes them.
RemovedFrom(u) ==
  \/ u \notin users'
  \/ \E d \in getDidsByUserId(u) : d.id \notin {e.id : e \in dids'}
  \/ \E c \in Range(credentials) :
       /\ c.didId \in UserDidIds(u)
       /\ c.id \notin {x.id : x \in Range(credentials')}
C28_DeletedOnlyByOwner ==
  [][\A u \in users :
       RemovedFrom(u) =>
         (response'.op = "deleteAccount" /\ response'.session.userId = u)]_vars

\* C25: admin verification is performed only for a session that holds an
\* organization id, and CreateIdentity, IssueCredential and RevokeCredential
\* only for a session that holds a user id; a request without the required
\* session is answered 401 and writes no Verification, DID, Credential or
\* Activity; self-serve and public share-token verification answer every
\* caller.
UserRoutes == {"createDid", "issue", "issueCustom", "revoke"}
WritesNothing ==
  /\ verifications' = verifications
  /\ dids' = dids
  /\ credentials' = credentials
  /\ activities' = activities
LacksSession(r) ==
  \/ r.op \in UserRoutes /\ r.session.userId = NULL
  \/ r.op = "adminVerify" /\ r.session.organizationId = NULL
C25_RoutesRequireTheirSession ==
  [][/\ LacksSession(response') =>
          (response'.code = 401 /\ response'.kind = "Unauthorized" /\ WritesNothing)
     /\ (response'.op \in UserRoutes \cup {"adminVerify"} /\ ~LacksSession(response'))
          => response'.code # 401
     /\ response'.op \in {"verify", "publicVerify"} =>
          /\ response'.code # 401
          /\ \A c \in StoredCredentials :
               PresentsShareToken(response'.text, c) => response'.code = 200]_vars

\* C25 witness: an anonymous caller was refused admin verification of a
\* stored credential's share token
C25_Witness ==
  /\ response.op = "adminVerify"
  /\ response.session = NoSession
  /\ response.code = 401
  /\ \E c \in StoredCredentials : PresentsShareToken(response.text, c)

\* C29: no response contains a DID's private key, except the CreateIdentity
\* and current-DID responses sent to the authenticated user who owns that
\* DID: no credential lookup, verification or disclosure response and no
\* response to another user or to an unauthenticated caller contains it.
StoredPrivateKeys == {d.privateKey : d \in dids}
\* the values of a response body that a key could be: the privateKey column of
\* its dids row, and the proof, signature, content hash and subject of its
\* credential object
OwnerOfKey(privateKey) == {d.userId : d \in {e \in dids : e.privateKey = privateKey}}
C29_PrivateKeyOnlyToOwner ==
  \A key \in StoredPrivateKeys :
     key \in {response.did.privateKey, response.did.publicKey,
              response.credential.proof, response.credential.proof.signature,
              response.credential.ipfsCid, response.credential.credentialSubject}
       => /\ response.op \in {"createDid", "currentDid"}
          /\ response.session.userId # NULL
          /\ OwnerOfKey(key) = {response.session.userId}

\* C29 witness: the current-DID route returned a private key while another
\* user's DID and a credential are stored
C29_Witness ==
  /\ response.op = "currentDid"
  /\ response.did.privateKey \in StoredPrivateKeys
  /\ \E d \in dids : d.userId # response.session.userId
  /\ credentials # <<>>

\* C30: for every stored credential created by IssueCredential, in every
\* reachable state and at every verification time, the self-serve, the
\* public share-token and the admin entry point return the same isValid when
\* given that credential's share token: each answers 200 with the one value
\* that the stored status and expiry date determine at that time.
IsTemplated(c) == c.type \in Types
SharedVerdict(c) ==
  c.status = "verified" /\ (c.expiresAt = NULL \/ c.expiresAt > now)
C26_VerifiesExactlyTheSignedPayload ==
  (signing.pc = "verified" /\ signing.pubk = signing.k)
    => (signing.verdict <=> signing.candidate = signing.data)

\* C24: under every interleaving of the storage steps of a RevokeCredential
\* and a Verify on the same stored credential, neither request ends with an
\* internal error, the owner's revoke is answered 200 and leaves the stored
\* status revoked, the Verify's verdict is the one computed from the status
\* it read, and a Verify whose query is sent after the revoke was answered
\* has isValid = FALSE.
RevokedInStorage(id) ==
  /\ CredentialById(id) # {}
  /\ \A c \in CredentialById(id) : c.status = "revoked"
VerdictOfRead(c) ==
  c.status = "verified" /\ (c.expiresAt = NULL \/ c.expiresAt > now)
====
